---- MODULE Spec2Model ----
(***************************************************************************)
(* Model of core/llm/ollama_scheduler.py: OllamaScheduler, a cooperative   *)
(* two-stage (CPU preprocessing, GPU inference) job scheduler running on   *)
(* one asyncio event loop.                                                 *)
(*                                                                         *)
(* A step of the model is one callback of the event loop: the code a task  *)
(* runs between two suspension points.  put()/get() on the unbounded       *)
(* PriorityQueue and the acquisition of the uncontended Lock never         *)
(* suspend, so the code from "async with self._lock" to the end of         *)
(* _schedule() runs inside one step.  The loop runs its ready callbacks in *)
(* FIFO order (variable ready); submissions and cancellations come from    *)
(* the callers at any time between two callbacks.                          *)
(*                                                                         *)
(* The second part models core/messaging/message_broker.py and chat.py:    *)
(* MessageBroker, a topic based publish/subscribe broker that gives every  *)
(* subscriber its own bounded asyncio.Queue, and Chat, a subscription to   *)
(* one topic.  The two programs share no state: the scheduler's steps      *)
(* leave the broker's variables alone and the broker's the scheduler's.    *)
(***************************************************************************)
EXTENDS Integers, Sequences, FiniteSets

\* ------------------------------------------------------------------ bounds
\* Number of jobs the callers submit in the general specification.
MaxJobs == 2
\* Number of jobs in the specifications that submit well-formed jobs only.
MaxValidJobs == 3
\* Priorities are 0..MaxPriority (lower number = more important).
MaxPriority == 1
\* Pool sizes the scheduler is constructed with.
PoolCpu == 1
PoolGpu == 1

JobIds == 1..(IF MaxJobs > MaxValidJobs THEN MaxJobs ELSE MaxValidJobs)
Priorities == 0..MaxPriority
\* Requests range from a negative amount to one unit more than the pool.
CpuUnits == (-1)..(PoolCpu + 1)
GpuUnits == (-1)..(PoolGpu + 1)
\* Payloads; "" is the dataclass default (an empty/absent payload).
Prompts == {"", "a"}

\* Number of queues the subscribers create (subscribe calls) and number of
\* messages published (publish calls), numbered in the order of the calls.
MaxQueues == 2
MaxMessages == 2
\* Number of distinct unsubscribe(topic, queue) calls.
MaxUnsubscribes == 1
\* The maxsize the last broker is constructed with; the others are
\* constructed with maxsize = 1.
QueueMaxSize == 2
\* Two brokers, as in the test of broker isolation.
NumBrokers == 2

Brokers == 1..NumBrokers
Topics == {"chat", "topic"}
QueueIds == 1..MaxQueues
MessageIds == 1..MaxMessages

\* ------------------------------------------------------------------- state
VARIABLES
    total_cpu_threads,   \* OllamaScheduler.total_cpu_threads
    total_gpu_mem,       \* OllamaScheduler.total_gpu_mem
    cpu_free,            \* OllamaScheduler.cpu_free
    gpu_mem_free,        \* OllamaScheduler.gpu_mem_free
    cpu_queue,           \* OllamaScheduler._cpu_queue: the heap list of the PriorityQueue
    gpu_queue,           \* OllamaScheduler._gpu_queue: heapq list
    gpu_running,         \* OllamaScheduler._gpu_running
    max_gpu_concurrency, \* OllamaScheduler.max_gpu_concurrency
    completed,           \* OllamaScheduler.completed
    job,                 \* the OllamaJob objects handed to submit (NoJob before)
    future,              \* job._future: state and result
    pc,                  \* where each caller's submit() call stands
    must_cancel,         \* Task._must_cancel of the task running submit()
    result,              \* what submit() returned to its caller
    ready,               \* the event loop's FIFO of ready callbacks
    task_exception,      \* jobs whose _run_gpu task ended with an exception
    last_grants,         \* history: the grants made by the latest _schedule() call
    unlocked_writes,     \* history: shared fields written outside "async with self._lock"
    queues,              \* MessageBroker._queues of each broker: topic -> list of queues
    items,               \* the content of each asyncio.Queue handed out by subscribe
    sub_of,              \* history: the broker and topic each queue was created for
    pub,                 \* where each publish() call stands
    received,            \* history: what the consumers got from each queue, in order
    unsub_returned,      \* history: the unsubscribe(topic, queue) calls that returned
    last_call            \* history: the latest unsubscribe or get_nowait call and its outcome

scheduler_vars ==
    <<total_cpu_threads, total_gpu_mem, cpu_free, gpu_mem_free, cpu_queue,
      gpu_queue, gpu_running, max_gpu_concurrency, completed, job, future,
      pc, must_cancel, result, ready, task_exception, last_grants,
      unlocked_writes>>

broker_vars ==
    <<queues, items, sub_of, pub, received, unsub_returned, last_call>>

vars == <<scheduler_vars, broker_vars>>

NoJob == [priority |-> 0, prompt |-> "", cpu_threads |-> 0, gpu_mem_mb |-> 0,
          submitted |-> FALSE]
NoResult == "<none>"

\* OllamaJob(priority, prompt, cpu_threads, gpu_mem_mb)
OllamaJob(p, s, c, g) ==
    [priority |-> p, prompt |-> s, cpu_threads |-> c, gpu_mem_mb |-> g,
     submitted |-> TRUE]

\* A request the pool can grant at some time: 0 <= amount <= total.
Satisfiable(amount, total) == 0 <= amount /\ amount <= total

\* A job an admission check would let through a pool of c CPU threads and g
\* MB of GPU memory.  submit() makes no such check.
WellFormed(shape, c, g) ==
    /\ Satisfiable(shape.cpu_threads, c)
    /\ Satisfiable(shape.gpu_mem_mb, g)
    /\ shape.prompt # ""

\* How many of the three admission conditions the job fails.
Defects(shape, c, g) ==
    (IF Satisfiable(shape.cpu_threads, c) THEN 0 ELSE 1)
    + (IF Satisfiable(shape.gpu_mem_mb, g) THEN 0 ELSE 1)
    + (IF shape.prompt # "" THEN 0 ELSE 1)

\* The jobs the callers submit: any priority, and at most one defect each (a
\* request below zero or above the pool, or an empty payload).
JobShapes ==
    {shape \in {OllamaJob(p, s, c, g) : p \in Priorities, s \in Prompts,
                                        c \in CpuUnits, g \in GpuUnits} :
        Defects(shape, PoolCpu, PoolGpu) <= 1}

\* The well-formed jobs among them.
ValidShapes == {shape \in JobShapes : WellFormed(shape, PoolCpu, PoolGpu)}

\* ------------------------------------------------------------------- heapq
\* Mutant of JobLess: the comparison turned round (a max-heap).
JobGreater(a, b, jb) == jb[a].priority > jb[b].priority

\* dataclass(order=True) with priority the only compared field: a < b.
JobLess(a, b, jb) == jb[a].priority < jb[b].priority

\* heap[pos] of a Python list (0-based) held in a TLA+ sequence (1-based).
At(heap, pos) == heap[pos + 1]
SetAt(heap, pos, item) == [heap EXCEPT ![pos + 1] = item]

\* heapq._siftdown(heap, startpos, pos) with newitem = heap[pos] taken out.
RECURSIVE SiftDown(_, _, _, _, _)
SiftDown(heap, startpos, pos, newitem, jb) ==
    IF pos > startpos
    THEN LET parentpos == (pos - 1) \div 2
             parent == At(heap, parentpos)
         IN IF JobLess(newitem, parent, jb)
            THEN SiftDown(SetAt(heap, pos, parent), startpos, parentpos, newitem, jb)
            ELSE SetAt(heap, pos, newitem)
    ELSE SetAt(heap, pos, newitem)

\* heapq.heappush(heap, item)
HeapPush(heap, item, jb) ==
    SiftDown(Append(heap, item), 0, Len(heap), item, jb)

\* The while loop of heapq._siftup: bubble the smaller child up until a leaf.
RECURSIVE SiftUpLoop(_, _, _, _, _)
SiftUpLoop(heap, startpos, pos, newitem, jb) ==
    LET endpos == Len(heap)
        childpos == 2 * pos + 1
        rightpos == childpos + 1
        pick == IF rightpos < endpos
                   /\ ~JobLess(At(heap, childpos), At(heap, rightpos), jb)
                THEN rightpos ELSE childpos
    IN IF childpos < endpos
       THEN SiftUpLoop(SetAt(heap, pos, At(heap, pick)), startpos, pick, newitem, jb)
       ELSE SiftDown(SetAt(heap, pos, newitem), startpos, pos, newitem, jb)

\* heapq.heappop(heap): the popped item and the heap left.
HeapPop(heap, jb) ==
    LET lastelt == heap[Len(heap)]
        rest == SubSeq(heap, 1, Len(heap) - 1)
    IN IF rest # <<>>
       THEN [item |-> rest[1],
             heap |-> SiftUpLoop(SetAt(rest, 0, lastelt), 0, 0, lastelt, jb)]
       ELSE [item |-> lastelt, heap |-> rest]

Range(s) == {s[i] : i \in 1..Len(s)}

\* ---------------------------------------------------------------- _schedule
\* A callback of the event loop: what it runs and for which job.
Callback(kind, j) == [kind |-> kind, job |-> j]

\* One grant, as _schedule makes it: the job taken from the queue, the jobs
\* left waiting in that queue and the free amount at that moment.
Grant(stage, j, waiting, free) ==
    [stage |-> stage, job |-> j, waiting |-> waiting, free |-> free]

RECURSIVE ScheduleCpu(_, _)
\* Mutant of ScheduleCpuRound: the first job of the queue that fits is
\* granted, whether or not it is the head (back-filling).
ScheduleCpuRoundAnyFit(st, jb) ==
    LET fits == {i \in 1..Len(st.cpu_queue) :
                    jb[st.cpu_queue[i]].cpu_threads <= st.cpu_free}
    IN IF fits = {}
       THEN st
       ELSE LET i == CHOOSE i \in fits : \A k \in fits : i <= k
                j == st.cpu_queue[i]
                rest == SubSeq(st.cpu_queue, 1, i - 1)
                            \o SubSeq(st.cpu_queue, i + 1, Len(st.cpu_queue))
            IN ScheduleCpu(
                 [st EXCEPT !.cpu_free = @ - jb[j].cpu_threads,
                            !.cpu_queue = rest,
                            !.tasks = Append(@, Callback("run_preprocess", j)),
                            !.grants = Append(@, Grant("cpu", j, Range(rest),
                                                       st.cpu_free))],
                 jb)

\* Mutant of ScheduleCpuRound: "<" for "<=" in the test of the job taken from
\* the queue, so that a job asking for all the free threads (or for none,
\* with none free) is put back.
ScheduleCpuRoundStrict(st, jb) ==
    IF st.cpu_queue = <<>>
    THEN st
    ELSE LET got == HeapPop(st.cpu_queue, jb)
             j == got.item
         IN IF jb[j].cpu_threads < st.cpu_free
            THEN ScheduleCpu(
                   [st EXCEPT !.cpu_free = @ - jb[j].cpu_threads,
                              !.cpu_queue = got.heap,
                              !.tasks = Append(@, Callback("run_preprocess", j)),
                              !.grants = Append(@, Grant("cpu", j, Range(got.heap),
                                                         st.cpu_free))],
                   jb)
            ELSE [st EXCEPT !.cpu_queue = HeapPush(got.heap, j, jb)]

\* One round of the inner CPU loop "while not self._cpu_queue.empty()": the
\* head is taken from the queue; it is granted and the loop goes on, or it is
\* put back and the loop ends.
ScheduleCpuRound(st, jb) ==
    IF st.cpu_queue = <<>>
    THEN st
    ELSE LET got == HeapPop(st.cpu_queue, jb)
             j == got.item
         IN IF jb[j].cpu_threads <= st.cpu_free
            THEN ScheduleCpu(
                   [st EXCEPT !.cpu_free = @ - jb[j].cpu_threads,
                              !.cpu_queue = got.heap,
                              !.tasks = Append(@, Callback("run_preprocess", j)),
                              !.grants = Append(@, Grant("cpu", j, Range(got.heap),
                                                         st.cpu_free))],
                   jb)
            ELSE [st EXCEPT !.cpu_queue = HeapPush(got.heap, j, jb)]

\* The inner CPU loop from the state st0 (st0 is evaluated once).
ScheduleCpu(st0, jb) ==
    CHOOSE after \in {ScheduleCpuRound(st, jb) : st \in {st0}} : TRUE

RECURSIVE ScheduleGpu(_, _)
\* Mutant of ScheduleGpuRound: "<" for "<=" in the test of the head, so that a
\* job asking for all the free memory is not granted.
ScheduleGpuRoundStrict(st, jb) ==
    IF st.gpu_queue # <<>> /\ jb[st.gpu_queue[1]].gpu_mem_mb < st.gpu_mem_free
    THEN LET got == HeapPop(st.gpu_queue, jb)
             j == got.item
         IN ScheduleGpu(
              [st EXCEPT !.gpu_mem_free = @ - jb[j].gpu_mem_mb,
                         !.gpu_queue = got.heap,
                         !.tasks = Append(@, Callback("run_gpu", j)),
                         !.grants = Append(@, Grant("gpu", j, Range(got.heap),
                                                    st.gpu_mem_free))],
              jb)
    ELSE st

\* Mutant of ScheduleGpuRound: the grant takes "job.gpu_mem_mb or 1" from
\* gpu_mem_free, one MB for a job that asks for none.
ScheduleGpuRoundOrOne(st, jb) ==
    IF st.gpu_queue # <<>> /\ jb[st.gpu_queue[1]].gpu_mem_mb <= st.gpu_mem_free
    THEN LET got == HeapPop(st.gpu_queue, jb)
             j == got.item
             taken == IF jb[j].gpu_mem_mb = 0 THEN 1 ELSE jb[j].gpu_mem_mb
         IN ScheduleGpu(
              [st EXCEPT !.gpu_mem_free = @ - taken,
                         !.gpu_queue = got.heap,
                         !.tasks = Append(@, Callback("run_gpu", j)),
                         !.grants = Append(@, Grant("gpu", j, Range(got.heap),
                                                    st.gpu_mem_free))],
              jb)
    ELSE st

\* Mutant of ScheduleGpuRound: the grant does not take the job's memory from
\* gpu_mem_free.
ScheduleGpuRoundNoDeduct(st, jb) ==
    IF st.gpu_queue # <<>> /\ jb[st.gpu_queue[1]].gpu_mem_mb <= st.gpu_mem_free
    THEN LET got == HeapPop(st.gpu_queue, jb)
             j == got.item
         IN ScheduleGpu(
              [st EXCEPT !.gpu_queue = got.heap,
                         !.tasks = Append(@, Callback("run_gpu", j)),
                         !.grants = Append(@, Grant("gpu", j, Range(got.heap),
                                                    st.gpu_mem_free))],
              jb)
    ELSE st

\* One round of the inner GPU loop "while self._gpu_queue and
\* self._gpu_queue[0].gpu_mem_mb <= self.gpu_mem_free".
ScheduleGpuRound(st, jb) ==
    IF st.gpu_queue # <<>> /\ jb[st.gpu_queue[1]].gpu_mem_mb <= st.gpu_mem_free
    THEN LET got == HeapPop(st.gpu_queue, jb)
             j == got.item
         IN ScheduleGpu(
              [st EXCEPT !.gpu_mem_free = @ - jb[j].gpu_mem_mb,
                         !.gpu_queue = got.heap,
                         !.tasks = Append(@, Callback("run_gpu", j)),
                         !.grants = Append(@, Grant("gpu", j, Range(got.heap),
                                                    st.gpu_mem_free))],
              jb)
    ELSE st

\* The inner GPU loop from the state st0 (st0 is evaluated once).
ScheduleGpu(st0, jb) ==
    CHOOSE after \in {ScheduleGpuRound(st, jb) : st \in {st0}} : TRUE

\* One round of the outer loop "while made_progress": both inner loops, and
\* another round if this one granted something.
RECURSIVE ScheduleLoop(_, _)
ScheduleRound(st, jb) ==
    LET made_progress(after) == Len(after.tasks) > Len(st.tasks)
    IN CHOOSE res \in {IF made_progress(after) THEN ScheduleLoop(after, jb) ELSE after :
                          after \in {ScheduleGpu(ScheduleCpu(st, jb), jb)}} : TRUE

\* The outer loop from the state st0 (st0 is evaluated once).
ScheduleLoop(st0, jb) ==
    CHOOSE after \in {ScheduleRound(st, jb) : st \in {st0}} : TRUE

\* OllamaScheduler._schedule() on the given counters and queues: the counters
\* and queues it leaves, the tasks it created (in creation order) and its grants.
Schedule(cf, gf, cq, gq, jb) ==
    ScheduleLoop([cpu_free |-> cf, gpu_mem_free |-> gf, cpu_queue |-> cq,
                  gpu_queue |-> gq, tasks |-> <<>>, grants |-> <<>>], jb)

\* -------------------------------------------------------------------- Init
\* A publish() call that has not been made.
NoPublish ==
    [stage |-> "idle", broker |-> 0, topic |-> "", index |-> 0, queue |-> 0,
     detached |-> FALSE, at_start |-> {}, room_at_start |-> {}, barred |-> {},
     after |-> {}, blocked |-> {}, list_changed |-> FALSE]
\* A queue no subscribe() call has created yet.
NoSubscription == [broker |-> 0, topic |-> ""]
\* result 0 is None; raised "" is no exception.
NoCall == [op |-> "", queue |-> 0, result |-> 0, raised |-> ""]

\* MessageBroker.__init__ of every broker: no topic, no queue, no call made.
InitBroker ==
    /\ queues = [b \in Brokers |-> [t \in Topics |-> <<>>]]
    /\ items = [q \in QueueIds |-> <<>>]
    /\ sub_of = [q \in QueueIds |-> NoSubscription]
    /\ pub = [m \in MessageIds |-> NoPublish]
    /\ received = [q \in QueueIds |-> <<>>]
    /\ unsub_returned = {}
    /\ last_call = NoCall

\* OllamaScheduler.__init__ on an idle event loop, no job submitted yet.
InitPool(c, g) ==
    /\ total_cpu_threads = c
    /\ total_gpu_mem = g
    /\ cpu_free = c
    /\ gpu_mem_free = g
    /\ cpu_queue = <<>>
    /\ gpu_queue = <<>>
    /\ gpu_running = <<>>
    /\ max_gpu_concurrency = 0
    /\ completed = <<>>
    /\ job = [j \in JobIds |-> NoJob]
    /\ future = [j \in JobIds |-> [state |-> "none", value |-> NoResult]]
    /\ pc = [j \in JobIds |-> "idle"]
    /\ must_cancel = [j \in JobIds |-> FALSE]
    /\ result = [j \in JobIds |-> NoResult]
    /\ ready = <<>>
    /\ task_exception = {}
    /\ last_grants = <<>>
    /\ unlocked_writes = {}
    /\ InitBroker

Init == InitPool(PoolCpu, PoolGpu)

\* ----------------------------------------------------------------- actions
\* submit(job) up to "return await job._future": the future is created, the
\* job is put on the CPU queue and _schedule() runs under the lock.  Jobs are
\* numbered in the order they are submitted.
Submit(j, shape) ==
    /\ pc[j] = "idle"
    /\ \A i \in JobIds : i < j => pc[i] # "idle"
    /\ LET jb == [job EXCEPT ![j] = shape]
           s == Schedule(cpu_free, gpu_mem_free, HeapPush(cpu_queue, j, jb),
                         gpu_queue, jb)
       IN /\ job' = jb
          /\ future' = [future EXCEPT ![j] = [state |-> "pending", value |-> NoResult]]
          /\ cpu_free' = s.cpu_free
          /\ gpu_mem_free' = s.gpu_mem_free
          /\ cpu_queue' = s.cpu_queue
          /\ gpu_queue' = s.gpu_queue
          /\ ready' = ready \o s.tasks
          /\ last_grants' = s.grants
    /\ pc' = [pc EXCEPT ![j] = "awaiting"]
    /\ unlocked_writes' = unlocked_writes \cup {"cpu_queue"}
    /\ UNCHANGED <<broker_vars, total_cpu_threads, total_gpu_mem, gpu_running,
                   max_gpu_concurrency, completed, must_cancel, result,
                   task_exception>>

\* The caller cancels the task that runs submit(job) (Task.cancel) while it
\* is suspended in "await job._future".  A pending future is cancelled and
\* its waiter scheduled; with the future already done the task is marked
\* _must_cancel and gets the CancelledError at its pending wake-up.
Cancel(j) ==
    /\ pc[j] = "awaiting"
    /\ ~must_cancel[j]
    /\ IF future[j].state = "pending"
       THEN /\ future' = [future EXCEPT ![j].state = "cancelled"]
            /\ ready' = Append(ready, Callback("submit_wakeup", j))
            /\ UNCHANGED must_cancel
       ELSE /\ must_cancel' = [must_cancel EXCEPT ![j] = TRUE]
            /\ UNCHANGED <<future, ready>>
    /\ UNCHANGED <<broker_vars, unlocked_writes, total_cpu_threads,
                   total_gpu_mem, cpu_free, gpu_mem_free,
                   cpu_queue, gpu_queue, gpu_running, max_gpu_concurrency,
                   completed, job, pc, result, task_exception, last_grants>>

\* The loop runs the callback at the head of its ready queue.
Running(kind, j) == ready # <<>> /\ Head(ready) = Callback(kind, j)

\* Mutant of RunPreprocessStart: the job is pushed on the GPU queue and
\* _schedule() runs before the CPU work, not in the finally block after it.
RunPreprocessStartEarlyPush(j) ==
    /\ Running("run_preprocess", j)
    /\ LET s == Schedule(cpu_free, gpu_mem_free, cpu_queue,
                         HeapPush(gpu_queue, j, job), job)
       IN /\ cpu_free' = s.cpu_free
          /\ gpu_mem_free' = s.gpu_mem_free
          /\ cpu_queue' = s.cpu_queue
          /\ gpu_queue' = s.gpu_queue
          /\ ready' = Append(Tail(ready), Callback("run_preprocess_finally", j))
                          \o s.tasks
          /\ last_grants' = s.grants
    /\ UNCHANGED <<broker_vars, unlocked_writes, total_cpu_threads,
                   total_gpu_mem, gpu_running,
                   max_gpu_concurrency, completed, job, future, pc, must_cancel,
                   result, task_exception>>

\* _run_preprocess(job) from its start to "await asyncio.sleep(0)".
RunPreprocessStart(j) ==
    /\ Running("run_preprocess", j)
    /\ ready' = Append(Tail(ready), Callback("run_preprocess_finally", j))
    /\ UNCHANGED <<broker_vars, unlocked_writes, total_cpu_threads,
                   total_gpu_mem, cpu_free, gpu_mem_free,
                   cpu_queue, gpu_queue, gpu_running, max_gpu_concurrency,
                   completed, job, future, pc, must_cancel, result,
                   task_exception, last_grants>>

\* The finally block of _run_preprocess: the CPU threads are given back, the
\* job is pushed on the GPU queue and _schedule() runs under the lock.
RunPreprocessFinally(j) ==
    /\ Running("run_preprocess_finally", j)
    /\ LET s == Schedule(cpu_free + job[j].cpu_threads, gpu_mem_free, cpu_queue,
                         HeapPush(gpu_queue, j, job), job)
       IN /\ cpu_free' = s.cpu_free
          /\ gpu_mem_free' = s.gpu_mem_free
          /\ cpu_queue' = s.cpu_queue
          /\ gpu_queue' = s.gpu_queue
          /\ ready' = Tail(ready) \o s.tasks
          /\ last_grants' = s.grants
    /\ unlocked_writes' = unlocked_writes \cup {"cpu_free"}
    /\ UNCHANGED <<broker_vars, total_cpu_threads, total_gpu_mem, gpu_running,
                   max_gpu_concurrency, completed, job, future, pc, must_cancel,
                   result, task_exception>>

Max(a, b) == IF a >= b THEN a ELSE b

\* Mutant of RunGpuStart: the maximum is taken before the job is appended to
\* the running list.
RunGpuStartStaleMax(j) ==
    /\ Running("run_gpu", j)
    /\ gpu_running' = Append(gpu_running, j)
    /\ max_gpu_concurrency' = Max(max_gpu_concurrency, Len(gpu_running))
    /\ ready' = Append(Tail(ready), Callback("run_gpu_finally", j))
    /\ UNCHANGED <<broker_vars, unlocked_writes, total_cpu_threads,
                   total_gpu_mem, cpu_free, gpu_mem_free,
                   cpu_queue, gpu_queue, completed, job, future, pc, must_cancel,
                   result, task_exception, last_grants>>

\* _run_gpu(job) from its start to "await asyncio.sleep(0)".
RunGpuStart(j) ==
    /\ Running("run_gpu", j)
    /\ gpu_running' = Append(gpu_running, j)
    /\ max_gpu_concurrency' = Max(max_gpu_concurrency, Len(gpu_running) + 1)
    /\ ready' = Append(Tail(ready), Callback("run_gpu_finally", j))
    /\ UNCHANGED <<broker_vars, unlocked_writes, total_cpu_threads,
                   total_gpu_mem, cpu_free, gpu_mem_free,
                   cpu_queue, gpu_queue, completed, job, future, pc, must_cancel,
                   result, task_exception, last_grants>>

\* list.remove(x): the first occurrence of x is taken out.
RECURSIVE ListRemove(_, _)
ListRemove(s, x) ==
    IF s = <<>> THEN s
    ELSE IF Head(s) = x THEN Tail(s)
    ELSE <<Head(s)>> \o ListRemove(Tail(s), x)

\* Mutant of SetResult: the payload is taken from the head of the completion
\* log (self.completed[0].prompt) instead of the job itself.
SetResultFromLog(j) ==
    [future EXCEPT ![j] = [state |-> "finished",
                           value |-> job[Append(completed, j)[1]].prompt]]

\* job._future.set_result(job.prompt)
SetResult(j) ==
    [future EXCEPT ![j] = [state |-> "finished", value |-> job[j].prompt]]

\* Mutant of RunGpuFinally: the future is settled with the payload and
\* nothing else is done (the release, the removal from the running list and
\* the entry in the completion log are left out).
RunGpuFinallySettleOnly(j) ==
    /\ Running("run_gpu_finally", j)
    /\ future[j].state = "pending"
    /\ future' = SetResult(j)
    /\ ready' = Append(Tail(ready), Callback("submit_wakeup", j))
    /\ UNCHANGED <<broker_vars, unlocked_writes, total_cpu_threads,
                   total_gpu_mem, cpu_free, gpu_mem_free,
                   cpu_queue, gpu_queue, gpu_running, max_gpu_concurrency,
                   completed, job, pc, must_cancel, result, task_exception,
                   last_grants>>

\* The finally block of _run_gpu with the job's future still pending: the GPU
\* memory is given back, the job leaves the running list and enters the
\* completion log, set_result(job.prompt) schedules the waiter of the future
\* and _schedule() runs under the lock.
RunGpuFinally(j) ==
    /\ Running("run_gpu_finally", j)
    /\ future[j].state = "pending"
    /\ gpu_running' = ListRemove(gpu_running, j)
    /\ completed' = Append(completed, j)
    /\ future' = SetResult(j)
    /\ LET s == Schedule(cpu_free, gpu_mem_free + job[j].gpu_mem_mb, cpu_queue,
                         gpu_queue, job)
       IN /\ cpu_free' = s.cpu_free
          /\ gpu_mem_free' = s.gpu_mem_free
          /\ cpu_queue' = s.cpu_queue
          /\ gpu_queue' = s.gpu_queue
          /\ ready' = (Tail(ready) \o <<Callback("submit_wakeup", j)>>) \o s.tasks
          /\ last_grants' = s.grants
    /\ unlocked_writes' = unlocked_writes \cup {"gpu_mem_free"}
    /\ UNCHANGED <<broker_vars, total_cpu_threads, total_gpu_mem, max_gpu_concurrency, job,
                   pc, must_cancel, result, task_exception>>

\* The finally block of _run_gpu with the job's future already cancelled:
\* set_result raises InvalidStateError, which leaves the finally block before
\* "async with self._lock: await self._schedule()" and ends the task.
RunGpuFinallyInvalidState(j) ==
    /\ Running("run_gpu_finally", j)
    /\ future[j].state # "pending"
    /\ gpu_mem_free' = gpu_mem_free + job[j].gpu_mem_mb
    /\ gpu_running' = ListRemove(gpu_running, j)
    /\ completed' = Append(completed, j)
    /\ task_exception' = task_exception \cup {j}
    /\ ready' = Tail(ready)
    /\ unlocked_writes' = unlocked_writes \cup {"gpu_mem_free"}
    /\ UNCHANGED <<broker_vars, total_cpu_threads, total_gpu_mem, cpu_free, cpu_queue,
                   gpu_queue, max_gpu_concurrency, job, future, pc, must_cancel,
                   result, last_grants>>

\* submit() resumes from "await job._future" with the result of the future.
SubmitReturn(j) ==
    /\ Running("submit_wakeup", j)
    /\ future[j].state = "finished"
    /\ ~must_cancel[j]
    /\ pc' = [pc EXCEPT ![j] = "returned"]
    /\ result' = [result EXCEPT ![j] = future[j].value]
    /\ ready' = Tail(ready)
    /\ UNCHANGED <<broker_vars, unlocked_writes, total_cpu_threads,
                   total_gpu_mem, cpu_free, gpu_mem_free,
                   cpu_queue, gpu_queue, gpu_running, max_gpu_concurrency,
                   completed, job, future, must_cancel, task_exception,
                   last_grants>>

\* submit() resumes from "await job._future" with CancelledError.
SubmitCancelled(j) ==
    /\ Running("submit_wakeup", j)
    /\ future[j].state = "cancelled" \/ must_cancel[j]
    /\ pc' = [pc EXCEPT ![j] = "cancelled"]
    /\ must_cancel' = [must_cancel EXCEPT ![j] = FALSE]
    /\ ready' = Tail(ready)
    /\ UNCHANGED <<broker_vars, unlocked_writes, total_cpu_threads,
                   total_gpu_mem, cpu_free, gpu_mem_free,
                   cpu_queue, gpu_queue, gpu_running, max_gpu_concurrency,
                   completed, job, future, result, task_exception, last_grants>>

\* One callback of the event loop.
Step ==
    \E j \in JobIds :
        \/ RunPreprocessStart(j)
        \/ RunPreprocessFinally(j)
        \/ RunGpuStart(j)
        \/ RunGpuFinally(j)
        \/ RunGpuFinallyInvalidState(j)
        \/ SubmitReturn(j)
        \/ SubmitCancelled(j)

\* The callbacks a run without cancellation can reach.
StepNoCancel ==
    \E j \in JobIds :
        \/ RunPreprocessStart(j)
        \/ RunPreprocessFinally(j)
        \/ RunGpuStart(j)
        \/ RunGpuFinally(j)
        \/ SubmitReturn(j)

\* ---------------------------------------------------------- specifications
\* Any job, well-formed or not, may be submitted, and any pending call cancelled.
Next ==
    \/ \E j \in 1..MaxJobs : \E shape \in JobShapes : Submit(j, shape)
    \/ \E j \in 1..MaxJobs : Cancel(j)
    \/ Step

Spec == Init /\ [][Next]_vars

\* Well-formed jobs only and no cancellation; the event loop keeps running its
\* ready callbacks.
NextValid ==
    \/ \E j \in 1..MaxValidJobs : \E shape \in ValidShapes : Submit(j, shape)
    \/ StepNoCancel

SpecValid == Init /\ [][NextValid]_vars /\ WF_vars(StepNoCancel)

\* ------------------------------------------------------- where a job stands
Submitted(j) == pc[j] # "idle"
InCpuQueue(j) == j \in Range(cpu_queue)
InGpuQueue(j) == j \in Range(gpu_queue)

\* The job has a task of the given kinds in the loop: created by a grant of
\* _schedule() and not yet through its finally block.
HasTask(j, kinds) == \E i \in 1..Len(ready) : ready[i].job = j /\ ready[i].kind \in kinds

\* CPU phase: cpu_threads taken from cpu_free and not yet given back.
InCpuPhase(j) == HasTask(j, {"run_preprocess", "run_preprocess_finally"})
\* GPU phase: gpu_mem_mb taken from gpu_mem_free and not yet given back.
InGpuPhase(j) == HasTask(j, {"run_gpu", "run_gpu_finally"})

\* The caller of submit(job) has got its answer: the payload or CancelledError.
Returned(j) == pc[j] = "returned"
CancelObserved(j) == pc[j] = "cancelled"
Terminal(j) == Returned(j) \/ CancelObserved(j)

\* The job as submitted passes the admission check of the pool.
Valid(j) == WellFormed(job[j], total_cpu_threads, total_gpu_mem)

RECURSIVE SumOver(_, _)
SumOver(S, f) ==
    IF S = {} THEN 0
    ELSE LET x == CHOOSE x \in S : TRUE IN f[x] + SumOver(S \ {x}, f)

CpuInUse == SumOver({j \in JobIds : InCpuPhase(j)}, [j \in JobIds |-> job[j].cpu_threads])
GpuInUse == SumOver({j \in JobIds : InGpuPhase(j)}, [j \in JobIds |-> job[j].gpu_mem_mb])

\* --------------------------------------------------- concurrent submission
\* The pool of the tests that submit their jobs with asyncio.gather:
\* OllamaScheduler(total_cpu_threads=2, total_gpu_mem=2).
GatherPoolCpu == 2
GatherPoolGpu == 2

\* The jobs of those tests: cpu_threads and gpu_mem_mb 0 or 1, any priority,
\* a payload each.
GatherShapes ==
    {OllamaJob(p, s, c, g) : p \in Priorities, s \in {"a", "b"},
                             c \in 0..1, g \in 0..1}

\* No callback of a submitted job has run yet: every submitted job waits in
\* the CPU queue or has its _run_preprocess task not yet started.
Gathering ==
    \A i \in JobIds :
        Submitted(i) => (InCpuQueue(i) \/ HasTask(i, {"run_preprocess"}))

\* asyncio.gather(scheduler.submit(job1), scheduler.submit(job2), ...): the
\* loop runs the submit() calls one after the other, each up to "await
\* job._future", before any task these calls created.
GatherSubmit(j, shape) == Gathering /\ Submit(j, shape)

NextGather ==
    \/ \E j \in 1..MaxValidJobs : \E shape \in GatherShapes : GatherSubmit(j, shape)
    \/ StepNoCancel

\* One gather of up to MaxValidJobs jobs on an idle scheduler with the pool of
\* the tests; the event loop keeps running its ready callbacks.
SpecGather ==
    InitPool(GatherPoolCpu, GatherPoolGpu) /\ [][NextGather]_vars
        /\ WF_vars(StepNoCancel)

\* The pool and the highest priority number of the test of concurrent GPU
\* jobs: OllamaScheduler(total_cpu_threads=3, total_gpu_mem=2), priority=2.
ConcurrentPoolCpu == 3
ConcurrentPoolGpu == 2
ConcurrentMaxPriority == 2

\* The jobs of that test: one CPU thread each, 1 MB (or all the 2 MB) of GPU
\* memory.
ConcurrentShapes ==
    {OllamaJob(p, "a", 1, g) : p \in 0..ConcurrentMaxPriority,
                              g \in 1..ConcurrentPoolGpu}

NextConcurrent ==
    \/ \E j \in 1..MaxValidJobs : \E shape \in ConcurrentShapes :
          GatherSubmit(j, shape)
    \/ StepNoCancel

\* One gather of up to MaxValidJobs such jobs on an idle scheduler with that
\* pool; the event loop keeps running its ready callbacks.
SpecConcurrent ==
    InitPool(ConcurrentPoolCpu, ConcurrentPoolGpu) /\ [][NextConcurrent]_vars
        /\ WF_vars(StepNoCancel)

\* ---------------------------------------------------------- MessageBroker
\* A step of a broker or chat call is the code it runs between two
\* suspension points.  subscribe, unsubscribe and queue_length are plain
\* functions; get on a queue that is not empty and put on a queue that is not
\* full do not suspend.  publish awaits asyncio.wait_for(queue.put(message),
\* timeout) once per subscriber: wait_for runs the put in a task of its own
\* and the publisher resumes after it, so other calls may run before the put
\* and again before the publisher goes on to the next subscriber.

\* The queues the subscribe calls have created so far.
Created == {q \in QueueIds : sub_of[q] # NoSubscription}

\* The queue of the next subscribe call.
NextQueue == CHOOSE q \in QueueIds \ Created : \A r \in QueueIds \ Created : q <= r

\* The message of the next publish call.
NextMessage ==
    CHOOSE m \in MessageIds :
        /\ pub[m].stage = "idle"
        /\ \A n \in MessageIds : pub[n].stage = "idle" => m <= n

\* The publish calls that have returned.
PublishReturned == {m \in MessageIds : pub[m].stage = "returned"}

\* Number of times message m is in the sequence s.
Count(m, s) == Cardinality({i \in 1..Len(s) : s[i] = m})

\* Everything that was put into queue q so far, in the order of the puts:
\* what the consumers took out of it, then what it still holds.
PutInto(q) == received[q] \o items[q]

\* list.remove(x) on a list that holds x: the first occurrence is dropped.
RECURSIVE RemoveFirst(_, _)
RemoveFirst(s, x) ==
    IF s = <<>> THEN <<>>
    ELSE IF Head(s) = x THEN Tail(s)
    ELSE <<Head(s)>> \o RemoveFirst(Tail(s), x)

\* MessageBroker._maxsize of broker b.
MaxSizeOf(b) == IF b = NumBrokers THEN QueueMaxSize ELSE 1

\* asyncio.Queue.full() of a queue created by subscribe: maxsize is its
\* broker's _maxsize.
Full(q) == Len(items[q]) >= MaxSizeOf(sub_of[q].broker)

\* Mutant of QueuePut: the message is put at the head of the queue.
QueuePutFront(content, m) == <<m>> \o content

\* queue.put(message) on a queue with room: the message goes to the end.
QueuePut(content, m) == Append(content, m)

\* The publish calls p after subscribe or unsubscribe has changed the list of
\* topic t of broker b: a call that is suspended on a full queue of that list
\* has had the list changed under its iteration.
ListChanged(p, b, t) ==
    [m \in MessageIds |->
        IF /\ p[m].stage = "put_blocked"
           /\ p[m].broker = b /\ p[m].topic = t
        THEN [p[m] EXCEPT !.list_changed = TRUE]
        ELSE p[m]]

\* MessageBroker.subscribe(topic), also Chat.__init__: a new queue is
\* appended to the topic's list (the defaultdict creates the list if the
\* topic has none) and returned.
Subscribe(b, t) ==
    /\ Created # QueueIds
    /\ LET q == NextQueue
       IN /\ sub_of' = [sub_of EXCEPT ![q] = [broker |-> b, topic |-> t]]
          /\ queues' = [queues EXCEPT ![b][t] = Append(@, q)]
          /\ pub' = ListChanged(pub, b, t)
    /\ UNCHANGED <<scheduler_vars, items, received, unsub_returned,
                   last_call>>

\* The state of the publish calls after "del self._queues[topic]": a call
\* that is iterating over the deleted list keeps that list object, which is
\* empty and which no later subscribe can reach.
Detach(b, t) ==
    [m \in MessageIds |->
        IF /\ pub[m].stage \in {"put_scheduled", "put_blocked", "resume"}
           /\ pub[m].broker = b /\ pub[m].topic = t
        THEN [pub[m] EXCEPT !.detached = TRUE]
        ELSE pub[m]]

\* Mutant of Unsubscribe: the queue stays in the topic's list.
UnsubscribeKeepsQueue(b, t, q) ==
    /\ q \in Created \cup {0}
    /\ Cardinality(unsub_returned \cup {<<b, t, q>>}) <= MaxUnsubscribes
    /\ unsub_returned' = unsub_returned \cup {<<b, t, q>>}
    /\ last_call' = [op |-> "unsubscribe", queue |-> q, result |-> 0,
                     raised |-> ""]
    /\ UNCHANGED <<scheduler_vars, queues, pub, items, sub_of, received>>

\* MessageBroker.unsubscribe(topic, queue): the queue is removed from the
\* topic's list and the topic deleted if its list is now empty; the
\* ValueError of list.remove for a queue that is not in the list is caught
\* and nothing changes.  Queue 0 is a queue no broker has handed out.
Unsubscribe(b, t, q) ==
    /\ q \in Created \cup {0}
    /\ Cardinality(unsub_returned \cup {<<b, t, q>>}) <= MaxUnsubscribes
    /\ IF q \in Range(queues[b][t])
       THEN LET rest == RemoveFirst(queues[b][t], q)
            IN /\ queues' = [queues EXCEPT ![b][t] = rest]
               /\ pub' = ListChanged(IF rest = <<>> THEN Detach(b, t)
                                      ELSE pub, b, t)
       ELSE UNCHANGED <<queues, pub>>
    /\ unsub_returned' = unsub_returned \cup {<<b, t, q>>}
    /\ last_call' = [op |-> "unsubscribe", queue |-> q, result |-> 0,
                     raised |-> ""]
    /\ UNCHANGED <<scheduler_vars, items, sub_of, received>>

\* MessageBroker.publish(topic, message), also Chat.publish, up to its first
\* suspension: the iteration over the topic's list starts; with no
\* subscriber the call returns at once, otherwise the put into the first
\* queue of the list is handed to wait_for.
PublishStart(b, t) ==
    /\ \E m \in MessageIds : pub[m].stage = "idle"
    /\ LET m == NextMessage
           list == queues[b][t]
           call == [NoPublish EXCEPT
                      !.broker = b, !.topic = t,
                      !.at_start = Range(list),
                      !.room_at_start = {q \in Range(list) : ~Full(q)},
                      !.barred = {q \in QueueIds : <<b, t, q>> \in unsub_returned},
                      !.after = PublishReturned]
       IN pub' = [pub EXCEPT ![m] =
                    IF list = <<>>
                    THEN [call EXCEPT !.stage = "returned"]
                    ELSE [call EXCEPT !.stage = "put_scheduled", !.index = 1,
                                      !.queue = list[1]]]
    /\ UNCHANGED <<scheduler_vars, queues, items, sub_of, received,
                   unsub_returned, last_call>>

\* The task wait_for made of queue.put(message) runs: with room in the queue
\* the message is in and the publisher is woken up; a full queue suspends
\* the put until a consumer makes room or the timeout ends it.
PutRun(m) ==
    /\ pub[m].stage = "put_scheduled"
    /\ LET q == pub[m].queue
       IN IF Full(q)
          THEN /\ pub' = [pub EXCEPT ![m].stage = "put_blocked",
                                     ![m].blocked = @ \cup {q}]
               /\ UNCHANGED items
          ELSE /\ items' = [items EXCEPT ![q] = QueuePut(@, m)]
               /\ pub' = [pub EXCEPT ![m].stage = "resume"]
    /\ UNCHANGED <<scheduler_vars, queues, sub_of, received, unsub_returned,
                   last_call>>

\* A consumer has made room: the suspended put goes on and the message is in.
PutUnblock(m) ==
    /\ pub[m].stage = "put_blocked"
    /\ ~Full(pub[m].queue)
    /\ items' = [items EXCEPT ![pub[m].queue] = QueuePut(@, m)]
    /\ pub' = [pub EXCEPT ![m].stage = "resume"]
    /\ UNCHANGED <<scheduler_vars, queues, sub_of, received, unsub_returned,
                   last_call>>

\* publish_put_timeout has passed with the put still suspended: wait_for
\* cancels it and raises TimeoutError, publish logs "dropping message".
PutTimeout(m) ==
    /\ pub[m].stage = "put_blocked"
    /\ pub' = [pub EXCEPT ![m].stage = "resume"]
    /\ UNCHANGED <<scheduler_vars, queues, items, sub_of, received,
                   unsub_returned, last_call>>

\* The publisher resumes after wait_for: the list iterator moves to the next
\* position of the list as it is now, and publish returns if there is none.
PublishResume(m) ==
    /\ pub[m].stage = "resume"
    /\ LET list == IF pub[m].detached THEN <<>>
                   ELSE queues[pub[m].broker][pub[m].topic]
       IN pub' = [pub EXCEPT ![m] =
                    IF pub[m].index < Len(list)
                    THEN [@ EXCEPT !.stage = "put_scheduled",
                                   !.index = pub[m].index + 1,
                                   !.queue = list[pub[m].index + 1]]
                    ELSE [@ EXCEPT !.stage = "returned"]]
    /\ UNCHANGED <<scheduler_vars, queues, items, sub_of, received,
                   unsub_returned, last_call>>

\* MessageBroker.get(queue), also Chat.receive, on a queue that holds a
\* message (on an empty queue the call stays suspended): the oldest message
\* is taken out and returned.
Get(q) ==
    /\ q \in Created
    /\ items[q] # <<>>
    /\ received' = [received EXCEPT ![q] = Append(@, Head(items[q]))]
    /\ items' = [items EXCEPT ![q] = Tail(@)]
    /\ UNCHANGED <<scheduler_vars, queues, sub_of, pub, unsub_returned,
                   last_call>>

\* Mutant of GetNowait: the newest message of the queue is returned.
GetNowaitNewest(q) ==
    /\ q \in Created
    /\ IF Len(items[q]) > 0
       THEN LET n == Len(items[q])
            IN /\ received' = [received EXCEPT ![q] = Append(@, items[q][n])]
               /\ items' = [items EXCEPT ![q] = SubSeq(@, 1, n - 1)]
               /\ last_call' = [op |-> "get_nowait", queue |-> q,
                                result |-> items[q][n], raised |-> ""]
       ELSE /\ last_call' = [op |-> "get_nowait", queue |-> q, result |-> 0,
                             raised |-> ""]
            /\ UNCHANGED <<received, items>>
    /\ UNCHANGED <<scheduler_vars, queues, sub_of, pub, unsub_returned>>

\* Chat.get_nowait: "if self._broker.queue_length(self._queue): return await
\* self.receive()", else None.  The receive finds a message and does not
\* suspend, so the call is one step either way.
GetNowait(q) ==
    /\ q \in Created
    /\ IF Len(items[q]) > 0
       THEN /\ received' = [received EXCEPT ![q] = Append(@, Head(items[q]))]
            /\ items' = [items EXCEPT ![q] = Tail(@)]
            /\ last_call' = [op |-> "get_nowait", queue |-> q,
                             result |-> Head(items[q]), raised |-> ""]
       ELSE /\ last_call' = [op |-> "get_nowait", queue |-> q, result |-> 0,
                             raised |-> ""]
            /\ UNCHANGED <<received, items>>
    /\ UNCHANGED <<scheduler_vars, queues, sub_of, pub, unsub_returned>>

NextBroker ==
    \/ \E b \in Brokers, t \in Topics : Subscribe(b, t)
    \/ \E b \in Brokers, t \in Topics, q \in QueueIds \cup {0} :
          Unsubscribe(b, t, q)
    \/ \E b \in Brokers, t \in Topics : PublishStart(b, t)
    \/ \E m \in MessageIds : PutRun(m)
    \/ \E m \in MessageIds : PutUnblock(m)
    \/ \E m \in MessageIds : PutTimeout(m)
    \/ \E m \in MessageIds : PublishResume(m)
    \/ \E q \in QueueIds : Get(q)
    \/ \E q \in QueueIds : GetNowait(q)

\* The brokers and their callers: subscribers, publishers and consumers call
\* at any time.
SpecBroker == Init /\ [][NextBroker]_vars

\* The jobs submitted so far.
SubmittedJobs == {j \in JobIds : Submitted(j)}

\* The priority numbers along the completion log never go down.
LogSortedByPriority ==
    \A i, k \in 1..Len(completed) :
        i < k => job[completed[i]].priority <= job[completed[k]].priority

\* All the submitted jobs ask for the same amounts.
EqualSized ==
    \A i, k \in SubmittedJobs :
        /\ job[i].cpu_threads = job[k].cpu_threads
        /\ job[i].gpu_mem_mb = job[k].gpu_mem_mb

\* The submitted jobs ask, together, for more than the pool holds.
Contended ==
    \/ SumOver(SubmittedJobs, [j \in JobIds |-> job[j].cpu_threads]) > total_cpu_threads
    \/ SumOver(SubmittedJobs, [j \in JobIds |-> job[j].gpu_mem_mb]) > total_gpu_mem

\* ------------------------------------------------------------------ claims

\* C1 (as claimed): whenever every submitted job has reached a terminal state
\* (its submit call returned the payload or surfaced the cancellation), the
\* pool is whole again: cpu_free = total_cpu_threads and gpu_mem_free =
\* total_gpu_mem.  The code leaves a cancelled job in the pipeline, so the
\* caller sees the cancellation while the job still holds its grant.
\* Stated for well-formed jobs, so that the admission check is not at stake.
C1_ResourceConservation ==
    (/\ \E j \in JobIds : Submitted(j)
     /\ \A j \in JobIds : Submitted(j) => (Valid(j) /\ Terminal(j)))
        => (cpu_free = total_cpu_threads /\ gpu_mem_free = total_gpu_mem)

\* C2 (as claimed): in every reachable state the CPU threads of the jobs in
\* their CPU phase sum to at most total_cpu_threads, and the GPU memory of the
\* jobs in their GPU phase to at most total_gpu_mem.  A negative request,
\* which submit() lets in, raises the free counter above the total and lets
\* an oversize request through.
C2_NoOverAdmission ==
    /\ CpuInUse <= total_cpu_threads
    /\ GpuInUse <= total_gpu_mem

\* C3: with well-formed jobs only and no cancellation (SpecValid), every
\* submitted job eventually is in the completion log and its submit call
\* eventually returns.
C3_Liveness ==
    \A j \in JobIds :
        (pc[j] = "awaiting") ~> (Returned(j) /\ j \in Range(completed))

\* C3 witness: all the jobs were submitted, each asking for the whole pool (so
\* they had to wait for one another), and all have returned.
C3_Witness ==
    \A j \in 1..MaxValidJobs :
        /\ Returned(j)
        /\ job[j].cpu_threads = total_cpu_threads
        /\ job[j].gpu_mem_mb = total_gpu_mem

\* C4: every submit call that returns a value returns the payload of the job
\* it submitted.
C4_OwnPayload ==
    \A j \in JobIds : Returned(j) => result[j] = job[j].prompt

\* C4 witness: two calls have returned, for jobs with different payloads.
C4_Witness ==
    \E j, k \in JobIds :
        /\ Returned(j) /\ Returned(k)
        /\ job[j].prompt # job[k].prompt
        /\ completed = <<j, k>>

\* C5 (as claimed): a job asking for more than total_cpu_threads or more than
\* total_gpu_mem never is in the CPU queue or the GPU queue.  submit() has no
\* admission check: the job is put on the CPU queue.
C5_OversizeNeverQueued ==
    \A j \in JobIds :
        (Submitted(j) /\ (\/ job[j].cpu_threads > total_cpu_threads
                          \/ job[j].gpu_mem_mb > total_gpu_mem))
            => (~InCpuQueue(j) /\ ~InGpuQueue(j))

\* C6 (as claimed): a job with a negative request or an empty payload enters
\* no queue and is granted nothing.  submit() queues it like any other job
\* and _schedule() grants a negative request at once.
C6_InvalidNeverAdmitted ==
    \A j \in JobIds :
        (Submitted(j) /\ (\/ job[j].cpu_threads < 0
                          \/ job[j].gpu_mem_mb < 0
                          \/ job[j].prompt = ""))
            => (/\ ~InCpuQueue(j) /\ ~InGpuQueue(j)
                /\ ~InCpuPhase(j) /\ ~InGpuPhase(j))

\* C7 (as claimed): a submission the admission check must reject leaves
\* cpu_free, gpu_mem_free, both queues, the running list, the completion log
\* and max_gpu_concurrency as they were.  In the code it changes the CPU
\* queue, or the counters and the loop's tasks.
C7_RejectedSubmitChangesNothing ==
    [][\A j \in JobIds :
          (pc[j] = "idle" /\ pc'[j] # "idle"
           /\ ~WellFormed(job'[j], total_cpu_threads, total_gpu_mem))
              => UNCHANGED <<cpu_free, gpu_mem_free, cpu_queue, gpu_queue,
                             gpu_running, completed, max_gpu_concurrency>>]_vars

\* No call was cancelled so far.
NoCancellation ==
    \A j \in JobIds :
        future[j].state # "cancelled" /\ ~must_cancel[j] /\ ~CancelObserved(j)

\* C8 (as claimed), as the final result of a run: when the event loop has no
\* callback left to run and no call was cancelled, every well-formed job that
\* was submitted has completed and its call has returned, whatever invalid
\* jobs were submitted with it.  In the code an oversize job stays at the
\* head of the CPU or GPU queue and the jobs behind it wait for ever.
C8_InvalidNeverBlocksValid ==
    (ready = <<>> /\ NoCancellation)
        => \A j \in JobIds : (Submitted(j) /\ Valid(j)) => Returned(j)

\* The request of job j at a stage.
Units(stage, j) == IF stage = "cpu" THEN job[j].cpu_threads ELSE job[j].gpu_mem_mb

\* C9: no grant of _schedule() goes to a job B while a job A with a strictly
\* lower priority number is waiting in the same queue and A's request fits
\* the free capacity: A is granted no later than B.
C9_PriorityOrdering ==
    \A i \in 1..Len(last_grants) :
        LET e == last_grants[i] IN
        \A a \in e.waiting :
            ~(job[a].priority < job[e.job].priority /\ Units(e.stage, a) <= e.free)

\* C9 witness: one _schedule() call granted A and then B from the same queue,
\* A with the strictly lower priority number, B waiting while A was granted.
C9_Witness ==
    \E i, k \in 1..Len(last_grants) :
        /\ i < k
        /\ last_grants[i].stage = last_grants[k].stage
        /\ last_grants[k].job \in last_grants[i].waiting
        /\ job[last_grants[i].job].priority < job[last_grants[k].job].priority

C11_HigherPriorityFirstInLog ==
    (/\ ready = <<>>
     /\ SubmittedJobs = {1, 2}
     /\ job[1].priority = 1 /\ job[2].priority = 0
     /\ \A j \in {1, 2} : job[j].cpu_threads = 1 /\ job[j].gpu_mem_mb = 1)
        => (/\ \A j \in {1, 2} : Returned(j) /\ result[j] = job[j].prompt
            /\ completed # <<>> /\ completed[1] = 2)

\* C12 (as claimed): when equal-sized jobs asking together for more than the
\* pool holds are submitted concurrently, in any order, the priority numbers
\* in the completion log are non-decreasing.  In the code the jobs submitted
\* first are granted at their own submission, whatever their priority.
C12_LogSortedUnderContention ==
    (EqualSized /\ Contended) => LogSortedByPriority

\* The call of job j was cancelled while its future was pending, that is
\* before the job completed.
CancelledBeforeCompletion(j) == future[j].state = "cancelled"

\* Every job submitted so far passes the admission check of the pool.
AllValid == \A k \in SubmittedJobs : Valid(k)

\* C13 (as claimed): in no state where the caller has observed the
\* cancellation of its call does the (well-formed) job still hold CPU threads
\* or GPU memory.  In the code the CancelledError reaches the caller while the
\* job's task goes on with its phase, holding its grant.
C13_ReleasedBeforeCancelObserved ==
    \A j \in JobIds :
        (CancelObserved(j) /\ Valid(j))
            => (/\ ~(InCpuPhase(j) /\ job[j].cpu_threads > 0)
                /\ ~(InGpuPhase(j) /\ job[j].gpu_mem_mb > 0))

\* C14 (as claimed), with well-formed jobs only: a job whose call was
\* cancelled while it waits in the CPU queue is not granted CPU threads
\* afterwards.  In the code the job stays in the queue and a later
\* _schedule() call grants it.
C14_CancelledInQueueNeverGranted ==
    [][\A j \in JobIds :
          (CancelledBeforeCompletion(j) /\ InCpuQueue(j) /\ AllValid')
              => ~InCpuPhase(j)']_vars

\* C15 (as claimed): a job whose call was cancelled before the job completed
\* never is in the completion log.  In the code the job runs to the end of
\* its GPU phase and is appended to completed.
C15_CancelledNeverCompleted ==
    \A j \in JobIds :
        (CancelledBeforeCompletion(j) /\ Valid(j)) => j \notin Range(completed)

\* C16 (as claimed): the scheduler never tries to settle a future that is
\* already settled.  In the code _run_gpu calls set_result on the future the
\* caller's cancellation has settled, and the call raises InvalidStateError.
C16_NoDoubleSettlement == \A j \in JobIds : Valid(j) => j \notin task_exception

\* C17 (as claimed), as the final result of a run of well-formed jobs: when
\* the event loop has no callback left to run, every job whose call was not
\* cancelled has completed and its call has returned, whatever calls were
\* cancelled.  In the code the InvalidStateError of C16 skips the _schedule()
\* call that ends _run_gpu, and a job waiting in the GPU queue waits for ever.
C17_CancellationIsPerJob ==
    (ready = <<>> /\ AllValid)
        => \A j \in SubmittedJobs :
              (~CancelledBeforeCompletion(j) /\ ~CancelObserved(j)) => Returned(j)

\* How far job j is through the pipeline: not submitted, in the CPU queue, in
\* its CPU phase, in the GPU queue, in its GPU phase, through.
Stage(j) ==
    IF ~Submitted(j) THEN 0
    ELSE IF InCpuQueue(j) THEN 1
    ELSE IF InCpuPhase(j) THEN 2
    ELSE IF InGpuQueue(j) THEN 3
    ELSE IF InGpuPhase(j) THEN 4
    ELSE 5

\* C18: no step leads to a state where a job is in its CPU phase and in its
\* GPU phase at once, and no step takes a job back in the pipeline: a job is
\* in its CPU phase during one interval and in its GPU phase during one
\* later interval.
C18_PhasesDisjoint ==
    [][\A j \in JobIds :
          /\ ~(InCpuPhase(j)' /\ InGpuPhase(j)')
          /\ Stage(j)' >= Stage(j)]_vars

\* C18 witness: a job asking for CPU threads and GPU memory is in its GPU
\* phase, holding the memory, with its CPU threads back in the pool.
C18_Witness ==
    \E j \in JobIds :
        /\ InGpuPhase(j) /\ ~InCpuPhase(j)
        /\ job[j].cpu_threads > 0 /\ job[j].gpu_mem_mb > 0
        /\ cpu_free = total_cpu_threads
        /\ gpu_mem_free = total_gpu_mem - job[j].gpu_mem_mb

BehindBlockedJob(j, queue, stage, free) ==
    \E k \in Range(queue) \ {j} :
        job[k].priority <= job[j].priority /\ Units(stage, k) > free

C20_ZeroJobLeavesCountersAlone ==
    \A j \in JobIds :
        (SubmittedJobs = {j} /\ job[j].cpu_threads = 0 /\ job[j].gpu_mem_mb = 0)
            => (/\ cpu_free = total_cpu_threads
                /\ gpu_mem_free = total_gpu_mem
                /\ ready = <<>> => (/\ Returned(j)
                                    /\ result[j] = job[j].prompt
                                    /\ completed = <<j>>))

\* C20 witness: the only job submitted asked for nothing and its call has
\* returned its payload.
C20_Witness ==
    \E j \in JobIds :
        /\ SubmittedJobs = {j}
        /\ job[j].cpu_threads = 0 /\ job[j].gpu_mem_mb = 0
        /\ Returned(j) /\ result[j] = job[j].prompt
        /\ completed = <<j>> /\ ready = <<>>

\* C21: max_gpu_concurrency is 0 at construction and every step leaves it the
\* larger of its former value and the new length of the GPU running list: it
\* never decreases and is the largest length the list has had so far.
C21_MaxGpuConcurrency ==
    /\ max_gpu_concurrency = 0 /\ gpu_running = <<>>
    /\ [][max_gpu_concurrency' = Max(max_gpu_concurrency, Len(gpu_running'))]_vars

\* C21 witness: two jobs were in the running list together and the list is
\* empty again, the maximum still 2.
C21_Witness ==
    /\ max_gpu_concurrency = 2
    /\ gpu_running = <<>>
    /\ Len(completed) = 2

\* The run of the test of concurrent GPU jobs is over: three jobs of one
\* thread and 1 MB each, with the priorities 0, 1 and 2 in some order, were
\* submitted and the loop has nothing left to run.
ThreeJobsDone ==
    /\ ready = <<>>
    /\ SubmittedJobs = {1, 2, 3}
    /\ \A j \in {1, 2, 3} : job[j].cpu_threads = 1 /\ job[j].gpu_mem_mb = 1
    /\ {job[j].priority : j \in {1, 2, 3}} = {0, 1, 2}

\* C22: on the pool of 3 CPU threads and 2 MB, when three jobs of one thread
\* and 1 MB each with the priorities 0, 1 and 2 were submitted concurrently
\* and the run is over, the three calls have returned, the three jobs are in
\* the completion log and max_gpu_concurrency >= 2.
C22_ConcurrentGpuJobs ==
    ThreeJobsDone
        => (/\ \A j \in {1, 2, 3} : Returned(j) /\ j \in Range(completed)
            /\ max_gpu_concurrency >= 2)

\* C22 witness: that run is over, the jobs submitted in the order of the
\* priorities 0, 1, 2, and two jobs were in the GPU running list together.
C22_Witness ==
    /\ ThreeJobsDone
    /\ \A j \in {1, 2, 3} : job[j].priority = j - 1
    /\ max_gpu_concurrency = 2
    /\ Len(completed) = 3

\* C23: when every job submitted asks for at least g >= 1 MB, the GPU running
\* list never holds more than total_gpu_mem / g jobs and max_gpu_concurrency
\* is at most that; with total_gpu_mem = 1 and jobs of 1 MB it is exactly 1
\* once a job has completed.
C23_GpuConcurrencyBounded ==
    /\ \A g \in 1..(total_gpu_mem + 1) :
          (\A j \in SubmittedJobs : job[j].gpu_mem_mb >= g)
              => (/\ Len(gpu_running) * g <= total_gpu_mem
                  /\ max_gpu_concurrency * g <= total_gpu_mem)
    /\ (/\ total_gpu_mem = 1
        /\ \A j \in SubmittedJobs : job[j].gpu_mem_mb = 1
        /\ completed # <<>>)
          => max_gpu_concurrency = 1

\* C23 witness: a job of 1 MB is in the running list of a pool of 1 MB while
\* another job of 1 MB waits in the GPU queue.
C23_Witness ==
    \E j, k \in SubmittedJobs :
        /\ gpu_running = <<j>> /\ InGpuQueue(k)
        /\ job[j].gpu_mem_mb = 1 /\ job[k].gpu_mem_mb = 1
        /\ total_gpu_mem = 1 /\ gpu_mem_free = 0
        /\ max_gpu_concurrency = 1

\* C24: in every state where a submit call has returned a value, the job is
\* out of its GPU phase (its memory given back), out of the running list and
\* in the completion log.
C24_ReturnAfterGpuPhase ==
    \A j \in JobIds :
        Returned(j) => (/\ ~InGpuPhase(j)
                        /\ j \notin Range(gpu_running)
                        /\ j \in Range(completed))

\* C24 witness: a call has just returned for a job that asked for GPU memory,
\* the only job so far, and the memory is back in the pool.
C24_Witness ==
    \E j \in JobIds :
        /\ Returned(j) /\ SubmittedJobs = {j}
        /\ job[j].gpu_mem_mb > 0
        /\ gpu_mem_free = total_gpu_mem
        /\ completed = <<j>> /\ gpu_running = <<>>

\* C29 (as claimed): in every state 0 <= cpu_free <= total_cpu_threads and
\* 0 <= gpu_mem_free <= total_gpu_mem, whatever requests submit has let into
\* the pipeline: no grant takes a counter below zero, no release above the
\* total.
C29_CountersWithinPool ==
    /\ 0 <= cpu_free /\ cpu_free <= total_cpu_threads
    /\ 0 <= gpu_mem_free /\ gpu_mem_free <= total_gpu_mem

\* C30 (as claimed): no step of submit, of the end of the CPU phase or of the
\* end of the GPU phase writes cpu_free, gpu_mem_free, the CPU queue or the
\* GPU queue outside the scheduler's lock.
C30_AllWritesUnderLock == unlocked_writes = {}

\* Message m was put into queue q this many times.
Delivered(m, q) == Count(m, PutInto(q))

\* The queue was created for the broker and the topic of publish call m.
SubscriberOf(q, m) ==
    sub_of[q] = [broker |-> pub[m].broker, topic |-> pub[m].topic]

\* C25 (as claimed): once publish(topic, m) has returned, m is exactly once in
\* the queue of every subscriber that was subscribed to the topic when the
\* call was made, had room then, was not found full by the put and is still
\* subscribed; no queue got m twice, and no queue created for another topic or
\* another broker got it.
C25_PublishReachesEverySubscriber ==
    \A m \in PublishReturned : \A q \in QueueIds :
        /\ Delivered(m, q) <= 1
        /\ ~SubscriberOf(q, m) => Delivered(m, q) = 0
        /\ (/\ q \in (pub[m].at_start \cap pub[m].room_at_start) \ pub[m].blocked
            /\ q \in Range(queues[pub[m].broker][pub[m].topic]))
              => Delivered(m, q) = 1

\* C26: in what a subscriber's queue was given, a message whose publish call
\* had returned before another's was made comes before that other (FIFO for
\* sequential publishes), every get takes the oldest message of its queue,
\* and a step that takes a message out of one queue leaves the content and
\* the consumption of every other queue as they were.
C26_FifoAndIndependent ==
    /\ [](\A q \in QueueIds : \A i, k \in 1..Len(PutInto(q)) :
            i < k => PutInto(q)[k] \notin pub[PutInto(q)[i]].after)
    /\ [][\A q \in QueueIds :
            received'[q] # received[q]
                => /\ items[q] # <<>>
                   /\ received'[q] = Append(received[q], Head(items[q]))
                   /\ items'[q] = Tail(items[q])
                   /\ \A r \in QueueIds \ {q} :
                        items'[r] = items[r] /\ received'[r] = received[r]]_vars

\* C26 witness: two messages published one after the other to a topic with
\* two subscribers; one subscriber has received both, in publication order,
\* and the queue of the other still holds both.
C26_Witness ==
    \E q, r \in Created :
        /\ q # r /\ sub_of[q] = sub_of[r]
        /\ 1 \in pub[2].after
        /\ received[q] = <<1, 2>> /\ items[q] = <<>>
        /\ received[r] = <<>> /\ items[r] = <<1, 2>>

\* C27: a publish call made after unsubscribe(topic, q) returned on the same
\* broker puts nothing into q; and an unsubscribe call raises nothing and,
\* for a queue that is not in the topic's list, changes no subscription and
\* no queue.
C27_UnsubscribeStopsDelivery ==
    /\ [](\A m \in MessageIds : \A q \in pub[m].barred \cap QueueIds :
            Delivered(m, q) = 0)
    /\ [][\A b \in Brokers, t \in Topics, q \in QueueIds \cup {0} :
            (<<b, t, q>> \in unsub_returned' \ unsub_returned)
                => /\ last_call'.op = "unsubscribe" /\ last_call'.raised = ""
                   /\ q \notin Range(queues'[b][t])
                   /\ q \notin Range(queues[b][t])
                        => queues' = queues /\ items' = items]_vars

\* C27 witness: a queue was subscribed and then unsubscribed, a message was
\* published to its topic afterwards, reached the other subscriber of the
\* topic and did not reach the unsubscribed queue.
C27_Witness ==
    \E m \in PublishReturned : \E q \in pub[m].barred \cap Created :
        \E r \in Created :
            /\ SubscriberOf(q, m) /\ SubscriberOf(r, m) /\ r # q
            /\ Delivered(m, r) = 1
            /\ Delivered(m, q) = 0

\* The step is a Chat.get_nowait call on queue q that returned.
GetNowaitReturned(q) ==
    /\ last_call' # last_call
    /\ last_call'.op = "get_nowait"
    /\ last_call'.queue = q

GrantedNow(stage, j) ==
    /\ last_grants' # last_grants
    /\ \E i \in 1..Len(last_grants') :
          last_grants'[i].job = j /\ last_grants'[i].stage = stage

\* C31: every step takes a job forward in the pipeline (CPU queue, CPU phase,
\* GPU queue, GPU phase, completed), never back, and by one place at a time;
\* the only places a single step passes through are the CPU queue, when the
\* _schedule() call of the job's own submit grants it at once, and the GPU
\* queue, when the _schedule() call at the end of its own CPU phase does.  A
\* job in the GPU queue or the GPU phase is out of its CPU phase, and the step
\* that ends the CPU phase gives the threads back: cpu_free plus the threads
\* held in CPU phases is unchanged by it.  A job past its GPU phase is in the
\* completion log.
C31_PipelineOrder ==
    [][\A j \in JobIds :
          /\ Stage(j)' >= Stage(j)
          /\ Stage(j)' > Stage(j) + 1
                => \/ Stage(j) = 0 /\ Stage(j)' = 2 /\ GrantedNow("cpu", j)
                   \/ Stage(j) = 2 /\ Stage(j)' = 4 /\ GrantedNow("gpu", j)
          /\ (InGpuQueue(j)' \/ InGpuPhase(j)') => ~InCpuPhase(j)'
          /\ (Stage(j) = 2 /\ Stage(j)' > 2)
                => cpu_free' + CpuInUse' = cpu_free + CpuInUse
          /\ Stage(j)' = 5 => j \in Range(completed')]_vars

\* C31 witness: a job that asked for a CPU thread waits in the GPU queue, its
\* thread back in the pool, while an earlier job is in its GPU phase.
C31_Witness ==
    \E j, k \in SubmittedJobs :
        /\ Valid(j) /\ Valid(k)
        /\ InGpuPhase(j) /\ InGpuQueue(k)
        /\ job[k].cpu_threads > 0
        /\ cpu_free = total_cpu_threads

\* C32 (as claimed): no _schedule() call grants CPU threads to a job while a
\* job of the same priority that entered the CPU queue earlier (jobs are
\* numbered in the order of their submit calls, which put them on the queue)
\* is still waiting in it.  In the code OllamaJob compares by priority only
\* and a head that does not fit is pushed back behind its equals.
C32_FifoAmongTies ==
    \A i \in 1..Len(last_grants) :
        LET e == last_grants[i] IN
        e.stage = "cpu"
            => \A a \in e.waiting :
                 ~(job[a].priority = job[e.job].priority /\ a < e.job)

\* What a _schedule() call is claimed to leave: the CPU queue empty or the
\* job at its head asking for more than cpu_free, the GPU queue empty or the
\* job at its head asking for more than gpu_mem_free.
NoFittingHeadWaits ==
    /\ cpu_queue = <<>> \/ job[cpu_queue[1]].cpu_threads > cpu_free
    /\ gpu_queue = <<>> \/ job[gpu_queue[1]].gpu_mem_mb > gpu_mem_free

\* C33 (as claimed), as the final result of a run of well-formed jobs: when
\* the event loop has no callback left to run, the last submission or phase
\* completion was followed by a _schedule() call, so no job that fits is at
\* the head of a queue.  In the code the end of the GPU phase of a job whose
\* call was cancelled leaves the finally block at set_result and makes no
\* _schedule() call: the memory is free and a job that fits stays queued.
C33_EveryEventReevaluates ==
    (ready = <<>> /\ AllValid) => NoFittingHeadWaits

\* The step has made a _schedule() call: it is a submit, the end of a CPU
\* phase, or the end of a GPU phase that got through its finally block.
PassRan ==
    \/ \E j \in JobIds : pc[j] = "idle" /\ pc'[j] # "idle"
    \/ \E j \in JobIds : InCpuPhase(j) /\ ~InCpuPhase(j)'
    \/ \E j \in JobIds :
          InGpuPhase(j) /\ ~InGpuPhase(j)' /\ task_exception' = task_exception

\* C34 (as claimed): every _schedule() call makes at most one grant per queue
\* and job waiting, and leaves no job that fits at the head of a queue.  In
\* the code the CPU loop ends when the job it took out does not fit and puts
\* it back, and the put-back can leave an equal-priority job that fits at the
\* head.
C34_PassLeavesNoFittingHead ==
    [][PassRan
          => /\ Len(last_grants') <= 2 * Cardinality(SubmittedJobs')
             /\ NoFittingHeadWaits']_vars

\* The tasks of job j in the loop that hold a grant: _run_preprocess or
\* _run_gpu, before or in its finally block.
PhaseTasks(j) ==
    {i \in 1..Len(ready) :
        /\ ready[i].job = j
        /\ ready[i].kind \in {"run_preprocess", "run_preprocess_finally",
                              "run_gpu", "run_gpu_finally"}}

\* In how many places of the pipeline job j is: entries in the CPU queue, in
\* the GPU queue and in the completion log, and tasks running one of its
\* phases.
Places(j) ==
    Count(j, cpu_queue) + Count(j, gpu_queue) + Cardinality(PhaseTasks(j))
        + Count(j, completed)

\* C35: every job submitted is in exactly one place: once in the CPU queue,
\* in its CPU phase, once in the GPU queue, in its GPU phase, or once in the
\* completion log; the GPU running list holds a job at most once and only
\* during its GPU phase.
C35_ExactlyOnePlace ==
    \A j \in JobIds :
        /\ Places(j) = (IF Submitted(j) THEN 1 ELSE 0)
        /\ Count(j, gpu_running) <= 1
        /\ j \in Range(gpu_running) => InGpuPhase(j)

\* C35 witness: two well-formed jobs, each asking for a thread and for
\* memory, are in different places: one in its GPU phase and in the running
\* list, the other in its CPU phase.
C35_Witness ==
    \E j, k \in SubmittedJobs :
        /\ AllValid
        /\ job[j].cpu_threads > 0 /\ job[j].gpu_mem_mb > 0
        /\ job[k].cpu_threads > 0 /\ job[k].gpu_mem_mb > 0
        /\ InGpuPhase(j) /\ gpu_running = <<j>>
        /\ InCpuPhase(k)
        /\ Places(j) = 1 /\ Places(k) = 1

\* C36: cpu_free plus the threads of the jobs in their CPU phase is
\* total_cpu_threads, gpu_mem_free plus the memory of the jobs in their GPU
\* phase is total_gpu_mem, and every job of the GPU running list is in its
\* GPU phase.
C36_AccountingIdentity ==
    /\ cpu_free + CpuInUse = total_cpu_threads
    /\ gpu_mem_free + GpuInUse = total_gpu_mem
    /\ \A j \in Range(gpu_running) : InGpuPhase(j)

\* C36 witness: a well-formed job holds the only CPU thread while another
\* holds the only MB of GPU memory.
C36_Witness ==
    /\ AllValid
    /\ CpuInUse = 1 /\ cpu_free = 0 /\ total_cpu_threads = 1
    /\ GpuInUse = 1 /\ gpu_mem_free = 0 /\ total_gpu_mem = 1
    /\ gpu_running # <<>>

\* The subscribers for which publish call m, now returned, dropped its
\* message: the put found the queue full and the timeout ended it.
Dropped(m) == {q \in pub[m].blocked : Delivered(m, q) = 0}

\* The subscribers of publish call m that were subscribed when the call was
\* made and still are, had room then and were not found full by the put.
SteadySubscribers(m) ==
    {q \in (pub[m].at_start \cap pub[m].room_at_start) \ pub[m].blocked :
        q \in Range(queues[pub[m].broker][pub[m].topic])}

\* C37 (as claimed): no queue holds more than its broker's maxsize; and once
\* a publish call that dropped its message for a subscriber whose queue
\* stayed full has returned, the other subscribers of the topic have the
\* message, each once.
C37_DropIsPerSubscriber ==
    /\ \A q \in Created : Len(items[q]) <= MaxSizeOf(sub_of[q].broker)
    /\ \A m \in PublishReturned :
          Dropped(m) # {}
              => \A r \in SteadySubscribers(m) : Delivered(m, r) = 1

\* C38 (as claimed): once a publish call has returned during whose
\* suspension on a full queue a queue was unsubscribed from or subscribed to
\* its topic, every subscriber that was subscribed when the call was made,
\* has stayed subscribed and had room has the message exactly once, and no
\* queue has it twice.
C38_NoSubscriberSkipped ==
    \A m \in PublishReturned :
        pub[m].list_changed
            => /\ \A r \in SteadySubscribers(m) : Delivered(m, r) = 1
               /\ \A q \in QueueIds : Delivered(m, q) <= 1

====
